---- MODULE Spec2Model ----
(***************************************************************************)
(* A model of src/run.py of BIBSnet: the nnU-Net wrapper (main,            *)
(* validate_cli_args, run_nnUNet_predict, exit_with_time_info) and the two *)
(* image-pipeline stages run_preBIBSnet and run_postBIBSnet.               *)
(*                                                                         *)
(* One behaviour is one call of one of the three entry points.  The        *)
(* arguments, the files already on disk and the results of the external    *)
(* tools are drawn from small sets; every Python statement that matters    *)
(* to a stage is one step of the program counter pc.                       *)
(***************************************************************************)
EXTENDS Integers, Sequences, FiniteSets, TLC

(***************************************************************************)
(* Bounds of the model.                                                    *)
(***************************************************************************)
\* longest directory listing of the --input directory
MaxListing == 3
\* largest translation of a transform written by an external tool
MaxShift == 1

(***************************************************************************)
(* Program constants.                                                      *)
(***************************************************************************)
\* run.py:199  "2 if int(age_months) < 22 else 1"
AgeCutoff == 22
\* run.py:254  os.path.join("/", "tmp", "cabinet")
DefaultWorkDir == "/tmp/cabinet"

(***************************************************************************)
(* File names.  A file name is a stem and a tail; the three glob patterns  *)
(* of run.py only look at the tail.                                        *)
(***************************************************************************)
Stems == {"sub-01", "sub-02"}
InputTails == {"_0000.nii.gz", "_0001.nii.gz", "_0002.nii.gz", ".json"}
InputFiles == [stem : Stems, tail : InputTails]

\* img_glob_path.format(x), run.py:337 (the directory part left out)
img_glob_path(x) ==
    CASE x = "?" -> "*_000?.nii.gz"
      [] x = "0" -> "*_0000.nii.gz"
      [] x = "1" -> "*_0001.nii.gz"

\* the tails a pattern matches
TailsOf(pattern) ==
    CASE pattern = "*_000?.nii.gz" ->
             {"_0000.nii.gz", "_0001.nii.gz", "_0002.nii.gz"}
      [] pattern = "*_0000.nii.gz" -> {"_0000.nii.gz"}
      [] pattern = "*_0001.nii.gz" -> {"_0001.nii.gz"}
      [] pattern = "*.nii.gz" ->
             {"_0000.nii.gz", "_0001.nii.gz", "_0002.nii.gz", ".nii.gz"}

\* fnmatch.fnmatch(name, pattern)
fnmatch(f, pattern) == f.tail \in TailsOf(pattern)

\* glob.glob over a directory listing: the matching names, in listing order
glob(listing, pattern) == SelectSeq(listing, LAMBDA f : fnmatch(f, pattern))

\* directory listings: sequences of distinct file names
RECURSIVE ListingsOfLen(_)
ListingsOfLen(n) ==
    IF n = 0 THEN {<<>>}
    ELSE {Append(s, f) : s \in ListingsOfLen(n - 1), f \in InputFiles}

NoRepeat(s) == \A i, j \in 1..Len(s) : i # j => s[i] # s[j]

Listings ==
    UNION {{s \in ListingsOfLen(n) : NoRepeat(s)} : n \in 0..MaxListing}

Range(s) == {s[i] : i \in 1..Len(s)}

(***************************************************************************)
(* Affine transforms (.mat files).  A transform <<a, b>> is the map        *)
(* x |-> a*x + b on one axis with a in {1, -1}: flips and translations,    *)
(* which do not commute, so the order of a concatenation is observable.    *)
(***************************************************************************)
Xfms == {<<a, b>> : a \in {1, -1}, b \in 0..MaxShift}
ApplyXfm(m, x) == m[1] * x + m[2]

\* the matrix product second * first: first is applied first
MatMul(second, first) == <<second[1] * first[1], second[1] * first[2] + second[2]>>

\* convert_xfm -inverse m -omat out
ConvertXfmInverse(m) == <<m[1], 0 - m[1] * m[2]>>

VARIABLES
    entry,          \* which function of run.py this behaviour runs
    pc,             \* position in that function
    error,          \* the exception or exit that ended the run, "" if none
    trace,          \* the stage operations performed so far, in order
    cli_args,       \* main: the parsed command line and the models.csv row
    outDir,         \* main: the files in cli_args["output"]
    rc,             \* main: exit status of the nnUNet_predict subprocess
    exitCode,       \* main: the status the interpreter exits with, -1 while running
    diag,           \* main: the paths and patterns the error message names
    j_args,         \* pre/post: the parameter dictionary
    todo,           \* pre/post: what the running for loop has still to visit
    t,              \* pre/post: the loop variable t, 0 while unbound
    t1or2,          \* pre/post: the local t1or2, 0 while unbound
    cropped,        \* pre: dict cropped
    crop2full,      \* pre: dict crop2full
    mats,           \* pre: the .mat files written by the single-modality path
    transformed_images, \* pre: dict transformed_images
    disk,           \* pre/post: the target files outside the working directory
    workDirExists,  \* post: whether j_args["common"]["work_dir"] is on disk
    artefacts       \* post: the local variables holding stage outputs

vars == <<entry, pc, error, trace, cli_args, outDir, rc, exitCode, diag, j_args,
          todo, t, t1or2, cropped, crop2full, mats, transformed_images, disk,
          workDirExists, artefacts>>

mainVars == <<cli_args, outDir, rc, exitCode, diag>>
stageVars == <<j_args, todo, t, t1or2, cropped, crop2full, mats,
               transformed_images, disk, workDirExists, artefacts>>

\* the empty dict
EmptyDict == [k \in {} |-> 0]
\* d[k] = v
Put(d, k, v) == (k :> v) @@ d

Event(op, tt) == [op |-> op, t |-> tt]
Log(op, tt) == trace' = Append(trace, Event(op, tt))

(***************************************************************************)
(* main: get_cli_args / validate_cli_args, run_nnUNet_predict,             *)
(* exit_with_time_info.                                                    *)
(***************************************************************************)
InputDir == "/input"
OutputDir == "/output"

\* run.py:338-342
how_many_T_expected(args) ==
    (IF args.task_T1w THEN 1 ELSE 0) + (IF args.task_T2w THEN 1 ELSE 0)

\* run.py:343
img_files(args) == glob(args.listing, img_glob_path("?"))

\* run.py:344-352: the patterns parser.error names, {} when the arguments pass
validate_cli_args(args) ==
    IF how_many_T_expected(args) = 2 /\ Len(img_files(args)) < 2
    THEN {img_glob_path("0"), img_glob_path("1")}
    ELSE IF how_many_T_expected(args) = 1
            /\ (\/ Len(img_files(args)) < 1
                \/ ~fnmatch(img_files(args)[1], img_glob_path("0")))
    THEN {img_glob_path("0")}
    ELSE {}

\* main, run.py:24: cli_args = get_cli_args(); parser.error exits with status 2
GetCliArgs ==
    /\ entry = "main" /\ pc = "get_cli_args"
    /\ Log("validate_cli_args", 0)
    /\ IF validate_cli_args(cli_args) = {}
       THEN /\ pc' = "nnUNet_predict"
            /\ UNCHANGED <<error, exitCode, diag>>
       ELSE /\ pc' = "exited"
            /\ error' = "parser.error"
            /\ exitCode' = 2
            /\ diag' = validate_cli_args(cli_args)
    /\ UNCHANGED <<entry, cli_args, outDir, rc>>
    /\ UNCHANGED stageVars

\* what one nnUNet_predict run may leave in the output directory, and its status
PredictWrites == SUBSET {[stem |-> "sub-01", tail |-> ".nii.gz"],
                         [stem |-> "plans", tail |-> ".pkl"]}
PredictStatuses == {0, 1}

\* run.py:164-166: subprocess.call(...), its return value dropped
SubprocessCall ==
    /\ entry = "main" /\ pc = "nnUNet_predict"
    /\ \E written \in PredictWrites, status \in PredictStatuses :
          /\ outDir' = outDir \cup written
          /\ rc' = status
    /\ Log("nnUNet_predict", 0)
    /\ pc' = "check_output"
    /\ UNCHANGED <<entry, error, cli_args, exitCode, diag>>
    /\ UNCHANGED stageVars

\* the check done on any file at all instead of on the *.nii.gz pattern
NoSegmentation_AnyFile(dir) == dir = {}

\* run.py:169: not glob(os.path.join(cli_args["output"], "*.nii.gz"))
NoSegmentation(dir) == {f \in dir : fnmatch(f, "*.nii.gz")} = {}

\* run.py:169-175: sys.exit(message) exits with status 1
CheckOutput ==
    /\ entry = "main" /\ pc = "check_output"
    /\ Log("check_output", 0)
    /\ IF NoSegmentation(outDir)
       THEN /\ pc' = "exited"
            /\ error' = "sys.exit"
            /\ exitCode' = 1
            /\ diag' = {cli_args.output, cli_args.input}
       ELSE /\ pc' = "exit_with_time_info"
            /\ UNCHANGED <<error, exitCode, diag>>
    /\ UNCHANGED <<entry, cli_args, outDir, rc>>
    /\ UNCHANGED stageVars

\* run.py:29, 419-429: exit_with_time_info(start_time), exit_code defaults to 0
ExitWithTimeInfo ==
    /\ entry = "main" /\ pc = "exit_with_time_info"
    /\ Log("exit_with_time_info", 0)
    /\ pc' = "exited"
    /\ exitCode' = 0
    /\ UNCHANGED <<entry, error, cli_args, outDir, rc, diag>>
    /\ UNCHANGED stageVars

\* the files an earlier run may have left in the output directory
EarlierOutputs == SUBSET {[stem |-> "sub-00", tail |-> ".nii.gz"],
                          [stem |-> "plans", tail |-> ".pkl"]}

NoCliArgs == [input |-> InputDir, output |-> OutputDir, task_T1w |-> FALSE,
              task_T2w |-> FALSE, listing |-> <<>>]

InitMain ==
    /\ entry = "main" /\ pc = "get_cli_args"
    /\ cli_args \in [input : {InputDir}, output : {OutputDir},
                     task_T1w : BOOLEAN, task_T2w : BOOLEAN, listing : Listings]
    /\ outDir \in EarlierOutputs

(***************************************************************************)
(* Helpers of the two pipeline stages whose code is not in run.py.         *)
(***************************************************************************)
\* only_Ts_needed_for_bibsnet_model(j_args["ID"]): each T (1 and/or 2) the
\* model requires, in ascending order
only_Ts_needed_for_bibsnet_model(ID) ==
    (IF ID.has_T1w THEN <<1>> ELSE <<>>) \o (IF ID.has_T2w THEN <<2>> ELSE <<>>)

\* apply_final_prebibsnet_xfms(...): one final volume and one final composed
\* transform per modality of the dual-modality path
apply_final_prebibsnet_xfms(regn_non_ACPC, regn_ACPC, m1, m2) ==
    (<<1, "img">> :> [kind |-> "img", t |-> 1, run |-> "this", regn |-> regn_ACPC])
    @@ (<<1, "mat">> :> [kind |-> "mat", t |-> 1, run |-> "this", xfm |-> m1])
    @@ (<<2, "img">> :> [kind |-> "img", t |-> 2, run |-> "this", regn |-> regn_ACPC])
    @@ (<<2, "mat">> :> [kind |-> "mat", t |-> 2, run |-> "this", xfm |-> m2])

\* the steps that call an external tool through a helper (crop_image,
\* run_FSL_sh_script, the registration and chirality scripts): the tool
\* may fail, and its failure ends the run
ExternalSteps ==
    {"create_anatomical_averages", "crop_image", "register_non_ACPC",
     "register_ACPC", "apply_final_xfms", "flirt", "convert_xfm_inverse",
     "convert_xfm_concat", "applywarp", "left_right_registration",
     "dilate_LR_mask", "correct_chirality", "revert_to_native",
     "make_asegderived_mask", "generate_sidecar_json"}

ExternalToolFails ==
    /\ entry \in {"preBIBSnet", "postBIBSnet"}
    /\ pc \in ExternalSteps
    /\ (pc = "crop_image" => todo # <<>>)
    /\ (pc = "revert_to_native" => todo # <<>>)
    /\ pc' = "failed"
    /\ error' = "ExternalToolError"
    /\ UNCHANGED <<entry, trace>>
    /\ UNCHANGED mainVars
    /\ UNCHANGED stageVars

\* a Python exception raised by a statement of run.py itself
Raise(e) ==
    /\ pc' = "failed"
    /\ error' = e

(***************************************************************************)
(* run_preBIBSnet                                                          *)
(***************************************************************************)
\* run.py:43, and the for statement of run.py:48
CreateAnatomicalAverages ==
    /\ entry = "preBIBSnet" /\ pc = "create_anatomical_averages"
    /\ Log("create_anatomical_averages", 0)
    /\ todo' = only_Ts_needed_for_bibsnet_model(j_args)
    /\ pc' = "crop_image"
    /\ UNCHANGED <<entry, error, j_args, t, t1or2, cropped, crop2full, mats,
                   transformed_images, disk, workDirExists, artefacts>>
    /\ UNCHANGED mainVars

\* run.py:48-51: one pass of the cropping loop; crop_image returns the
\* crop-to-full transform the external field-of-view tool wrote
CropImage ==
    /\ entry = "preBIBSnet" /\ pc = "crop_image" /\ todo # <<>>
    /\ t' = Head(todo)
    /\ todo' = Tail(todo)
    /\ cropped' = Put(cropped, t', [kind |-> "crop", t |-> t'])
    /\ \E m \in Xfms : crop2full' = Put(crop2full, t', m)
    /\ Log("crop_image", t')
    /\ UNCHANGED <<entry, pc, error, j_args, t1or2, mats, transformed_images,
                   disk, workDirExists, artefacts>>
    /\ UNCHANGED mainVars

\* the single-modality choice with the two modalities swapped
t1or2_swapped(ID) == IF ID.has_T1w THEN 2 ELSE 1

\* run.py:62 and 86-89: the branch on modality availability
t1or2_of_single_path(ID) == IF ID.has_T1w THEN 1 ELSE 2

takes_dual_path(ID) == ID.has_T1w /\ ID.has_T2w

SelectRegistrationPath ==
    /\ entry = "preBIBSnet" /\ pc = "crop_image" /\ todo = <<>>
    /\ IF takes_dual_path(j_args)
       THEN /\ pc' = "register_non_ACPC"
            /\ UNCHANGED t1or2
       ELSE /\ pc' = "flirt"
            /\ t1or2' = t1or2_of_single_path(j_args)
    /\ UNCHANGED <<entry, error, trace, j_args, todo, t, cropped, crop2full, mats,
                   transformed_images, disk, workDirExists, artefacts>>
    /\ UNCHANGED mainVars

\* run.py:66-69
RegisterNonACPC ==
    /\ entry = "preBIBSnet" /\ pc = "register_non_ACPC"
    /\ artefacts' = Put(artefacts, "regn_non_ACPC",
                        [kind |-> "non_ACPC", of |-> DOMAIN cropped])
    /\ Log("register_non_ACPC", 0)
    /\ pc' = "register_ACPC"
    /\ UNCHANGED <<entry, error, j_args, todo, t, t1or2, cropped, crop2full, mats,
                   transformed_images, disk, workDirExists>>
    /\ UNCHANGED mainVars

\* run.py:74-77: seeded by regn_non_ACPC["vars"]
RegisterACPC ==
    /\ entry = "preBIBSnet" /\ pc = "register_ACPC"
    /\ artefacts' = Put(artefacts, "regn_ACPC",
                        [kind |-> "ACPC", seed |-> artefacts["regn_non_ACPC"],
                         of |-> DOMAIN cropped])
    /\ Log("register_ACPC", 0)
    /\ pc' = "apply_final_xfms"
    /\ UNCHANGED <<entry, error, j_args, todo, t, t1or2, cropped, crop2full, mats,
                   transformed_images, disk, workDirExists>>
    /\ UNCHANGED mainVars

\* run.py:81-83, and the for statement of run.py:134
ApplyFinalXfms ==
    /\ entry = "preBIBSnet" /\ pc = "apply_final_xfms"
    /\ \E m1, m2 \in Xfms :
          transformed_images' =
              apply_final_prebibsnet_xfms(artefacts["regn_non_ACPC"],
                                          artefacts["regn_ACPC"], m1, m2)
    /\ Log("apply_final_xfms", 0)
    /\ todo' = only_Ts_needed_for_bibsnet_model(j_args)
    /\ pc' = "copy_image"
    /\ UNCHANGED <<entry, error, j_args, t, t1or2, cropped, crop2full, mats,
                   disk, workDirExists, artefacts>>
    /\ UNCHANGED mainVars

\* run.py:98-103: flirt -in cropped[t1or2] -ref template -applyisoxfm 1
\* -init id_mx -omat crop2BIBS_mat; the matrix is whatever flirt writes
Flirt ==
    /\ entry = "preBIBSnet" /\ pc = "flirt"
    /\ IF t1or2 \in DOMAIN cropped
       THEN /\ \E m \in Xfms : mats' = Put(mats, "crop2BIBS_mat", m)
            /\ Log("flirt", t1or2)
            /\ pc' = "convert_xfm_inverse"
            /\ UNCHANGED error
       ELSE /\ Raise("KeyError")
            /\ UNCHANGED <<mats, trace>>
    /\ UNCHANGED <<entry, j_args, todo, t, t1or2, cropped, crop2full,
                   transformed_images, disk, workDirExists, artefacts>>
    /\ UNCHANGED mainVars

\* run.py:108-113: convert_xfm -inverse crop2full[t] -omat full2crop
InvertCrop2Full ==
    /\ entry = "preBIBSnet" /\ pc = "convert_xfm_inverse"
    /\ IF t \in DOMAIN crop2full
       THEN /\ mats' = Put(mats, "full2crop", ConvertXfmInverse(crop2full[t]))
            /\ Log("convert_xfm_inverse", t)
            /\ pc' = "convert_xfm_concat"
            /\ UNCHANGED error
       ELSE /\ Raise("KeyError")
            /\ UNCHANGED <<mats, trace>>
    /\ UNCHANGED <<entry, j_args, todo, t, t1or2, cropped, crop2full,
                   transformed_images, disk, workDirExists, artefacts>>
    /\ UNCHANGED mainVars

\* FSL's convert_xfm -omat AtoC -concat BtoC AtoB: the matrix named right
\* after -concat is the one applied second, the last argument the one
\* applied first; the output is the product BtoC * AtoB
convert_xfm_concat(afterConcat, lastArg) == MatMul(afterConcat, lastArg)

\* run.py:119-122: convert_xfm -omat out_mat -concat full2crop crop2BIBS_mat
ConcatXfms ==
    /\ entry = "preBIBSnet" /\ pc = "convert_xfm_concat"
    /\ mats' = Put(mats, "out_mat",
                   convert_xfm_concat(mats["full2crop"], mats["crop2BIBS_mat"]))
    /\ Log("convert_xfm_concat", t1or2)
    /\ pc' = "applywarp"
    /\ UNCHANGED <<entry, error, j_args, todo, t, t1or2, cropped, crop2full,
                   transformed_images, disk, workDirExists, artefacts>>
    /\ UNCHANGED mainVars

\* run.py:123-130: applywarp -i avg[T{t}w_avg] -r template(t1or2)
\* --premat=out_mat -o out_img, and the dict of the single-modality path;
\* then the for statement of run.py:134
out_img_of(avgT, refT, premat) ==
    [kind |-> "img", t |-> refT, run |-> "this", avg |-> avgT,
     premat |-> premat, resamples |-> 1]

single_path_images(tt, img, mat) ==
    (<<tt, "img">> :> img)
    @@ (<<tt, "mat">> :> [kind |-> "mat", t |-> tt, run |-> "this", xfm |-> mat])

Applywarp ==
    /\ entry = "preBIBSnet" /\ pc = "applywarp"
    /\ transformed_images' =
          single_path_images(t1or2, out_img_of(t, t1or2, mats["out_mat"]),
                             mats["out_mat"])
    /\ Log("applywarp", t1or2)
    /\ todo' = only_Ts_needed_for_bibsnet_model(j_args)
    /\ pc' = "copy_image"
    /\ UNCHANGED <<entry, error, j_args, t, t1or2, cropped, crop2full, mats,
                   disk, workDirExists, artefacts>>
    /\ UNCHANGED mainVars

\* os.remove(path) on the modelled files
Remove(d, path) == [k \in DOMAIN d \ {path} |-> d[k]]

\* os.path.exists(path)
Exists(d, path) == path \in DOMAIN d

\* run.py:138-139 and 249-250: "if overwrite: os.remove(path)" raises
\* FileNotFoundError when there is no file at path
remove_raises(d, path, overwrite) == overwrite /\ ~Exists(d, path)

after_remove(d, path, overwrite) == IF overwrite THEN Remove(d, path) ELSE d

\* run.py:134-141: the image half of one pass of the copy loop
CopyImage ==
    /\ entry = "preBIBSnet" /\ pc = "copy_image" /\ todo # <<>>
    /\ t' = Head(todo)
    /\ todo' = Tail(todo)
    /\ LET out_nii_fpath == <<"optimal_resized", t'>>
           d1 == after_remove(disk, out_nii_fpath, j_args.overwrite)
       IN  IF remove_raises(disk, out_nii_fpath, j_args.overwrite)
           THEN /\ Raise("FileNotFoundError")
                /\ UNCHANGED <<disk, trace>>
           ELSE IF Exists(d1, out_nii_fpath)
           THEN /\ disk' = d1
                /\ pc' = "copy_mat"
                /\ UNCHANGED <<error, trace>>
           ELSE IF <<t', "img">> \in DOMAIN transformed_images
           THEN /\ disk' = Put(d1, out_nii_fpath, transformed_images[<<t', "img">>])
                /\ Log("copy_image", t')
                /\ pc' = "copy_mat"
                /\ UNCHANGED error
           ELSE /\ Raise("KeyError")
                /\ disk' = d1
                /\ UNCHANGED trace
    /\ UNCHANGED <<entry, j_args, t1or2, cropped, crop2full, mats,
                   transformed_images, workDirExists, artefacts>>
    /\ UNCHANGED mainVars

\* run.py:145-153: the transform half of the same pass
CopyMat ==
    /\ entry = "preBIBSnet" /\ pc = "copy_mat"
    /\ LET out_mat_fpath == <<"preBIBSnet_mat", t>>
       IN  IF <<t, "mat">> \notin DOMAIN transformed_images
           THEN /\ Raise("KeyError")
                /\ UNCHANGED <<disk, trace>>
           ELSE IF ~Exists(disk, out_mat_fpath)
           THEN /\ disk' = Put(disk, out_mat_fpath, transformed_images[<<t, "mat">>])
                /\ Log("copy_mat", t)
                /\ pc' = "copy_image"
                /\ UNCHANGED error
           ELSE /\ pc' = "copy_image"
                /\ UNCHANGED <<disk, error, trace>>
    /\ UNCHANGED <<entry, j_args, todo, t, t1or2, cropped, crop2full, mats,
                   transformed_images, workDirExists, artefacts>>
    /\ UNCHANGED mainVars

\* run.py:154-155
PreBIBSnetCompleted ==
    /\ entry = "preBIBSnet" /\ pc = "copy_image" /\ todo = <<>>
    /\ pc' = "done"
    /\ UNCHANGED <<entry, error, trace>>
    /\ UNCHANGED mainVars
    /\ UNCHANGED stageVars

(***************************************************************************)
(* run_postBIBSnet                                                         *)
(***************************************************************************)
\* the age cutoff taken inclusively
reference_modality_inclusive(ID) ==
    IF ID.has_T1w /\ ID.has_T2w
    THEN (IF ID.age_months <= AgeCutoff THEN 2 ELSE 1)
    ELSE IF ID.has_T1w THEN 1
    ELSE 2

\* run.py:198-203
reference_modality(ID) ==
    IF ID.has_T1w /\ ID.has_T2w
    THEN (IF ID.age_months < AgeCutoff THEN 2 ELSE 1)
    ELSE IF ID.has_T1w THEN 1
    ELSE 2

\* run.py:186-203
SelectReference ==
    /\ entry = "postBIBSnet" /\ pc = "select_reference"
    /\ t1or2' = reference_modality(j_args)
    /\ pc' = "left_right_registration"
    /\ UNCHANGED <<entry, error, trace, j_args, todo, t, cropped, crop2full, mats,
                   transformed_images, disk, workDirExists, artefacts>>
    /\ UNCHANGED mainVars

\* run.py:206-208
LeftRightRegistration ==
    /\ entry = "postBIBSnet" /\ pc = "left_right_registration"
    /\ artefacts' = Put(artefacts, "left_right_mask",
                        [kind |-> "left_right_mask", ref |-> t1or2])
    /\ Log("left_right_registration", t1or2)
    /\ pc' = "dilate_LR_mask"
    /\ UNCHANGED <<entry, error, j_args, todo, t, t1or2, cropped, crop2full, mats,
                   transformed_images, disk, workDirExists>>
    /\ UNCHANGED mainVars

\* run.py:214-217
DilateLRMask ==
    /\ entry = "postBIBSnet" /\ pc = "dilate_LR_mask"
    /\ artefacts' = Put(artefacts, "dilated_LRmask",
                        [kind |-> "dilated_LRmask",
                         of |-> artefacts["left_right_mask"]])
    /\ Log("dilate_LR_mask", 0)
    /\ pc' = "correct_chirality"
    /\ UNCHANGED <<entry, error, j_args, todo, t, t1or2, cropped, crop2full, mats,
                   transformed_images, disk, workDirExists>>
    /\ UNCHANGED mainVars

\* run.py:219-221: run_correct_chirality, then the for statement
CorrectChirality ==
    /\ entry = "postBIBSnet" /\ pc = "correct_chirality"
    /\ artefacts' = Put(artefacts, "nifti_file_paths",
                        [kind |-> "chirality_corrected",
                         mask |-> artefacts["dilated_LRmask"]])
    /\ Log("correct_chirality", 0)
    /\ todo' = only_Ts_needed_for_bibsnet_model(j_args)
    /\ pc' = "revert_to_native"
    /\ UNCHANGED <<entry, error, j_args, t, t1or2, cropped, crop2full, mats,
                   transformed_images, disk, workDirExists>>
    /\ UNCHANGED mainVars

\* run.py:221-224: one pass of the loop starts with native-space reversion
RevertToNative ==
    /\ entry = "postBIBSnet" /\ pc = "revert_to_native" /\ todo # <<>>
    /\ t' = Head(todo)
    /\ todo' = Tail(todo)
    /\ artefacts' = Put(artefacts, "nii_outfpath",
                        [kind |-> "native_seg", t |-> t',
                         of |-> artefacts["nifti_file_paths"]])
    /\ Log("revert_to_native", t')
    /\ pc' = "make_asegderived_mask"
    /\ UNCHANGED <<entry, error, j_args, t1or2, cropped, crop2full, mats,
                   transformed_images, disk, workDirExists>>
    /\ UNCHANGED mainVars

\* the mask made from the template-space segmentation instead of the
\* native-space one
MakeAsegderivedMask_TemplateSpace ==
    /\ entry = "postBIBSnet" /\ pc = "make_asegderived_mask"
    /\ artefacts' = Put(artefacts, "aseg_mask",
                        [kind |-> "mask", t |-> t,
                         of |-> artefacts["nifti_file_paths"]])
    /\ Log("make_asegderived_mask", t)
    /\ pc' = "copy_aseg"
    /\ UNCHANGED <<entry, error, j_args, todo, t, t1or2, cropped, crop2full, mats,
                   transformed_images, disk, workDirExists>>
    /\ UNCHANGED mainVars

\* run.py:230
MakeAsegderivedMask ==
    /\ entry = "postBIBSnet" /\ pc = "make_asegderived_mask"
    /\ artefacts' = Put(artefacts, "aseg_mask",
                        [kind |-> "mask", t |-> t,
                         of |-> artefacts["nii_outfpath"]])
    /\ Log("make_asegderived_mask", t)
    /\ pc' = "copy_aseg"
    /\ UNCHANGED <<entry, error, j_args, todo, t, t1or2, cropped, crop2full, mats,
                   transformed_images, disk, workDirExists>>
    /\ UNCHANGED mainVars

\* copy_to_derivatives_dir(file, derivs_dir, sub_ses, t, suffix): the file
\* copied into the derivatives tree under the modality and the suffix
copy_to_derivatives_dir(d, file, tt, suffix) == Put(d, <<suffix, tt>>, file)

\* run.py:234-238
CopyAseg ==
    /\ entry = "postBIBSnet" /\ pc = "copy_aseg"
    /\ disk' = copy_to_derivatives_dir(disk, artefacts["nii_outfpath"], t, "aseg_dseg")
    /\ artefacts' = Put(artefacts, "bibsnet_derivs_dir", [kind |-> "dir"])
    /\ Log("copy_aseg_dseg", t)
    /\ pc' = "copy_mask"
    /\ UNCHANGED <<entry, error, j_args, todo, t, t1or2, cropped, crop2full, mats,
                   transformed_images, workDirExists>>
    /\ UNCHANGED mainVars

\* run.py:239
CopyMask ==
    /\ entry = "postBIBSnet" /\ pc = "copy_mask"
    /\ disk' = copy_to_derivatives_dir(disk, artefacts["aseg_mask"], t, "brain_mask")
    /\ Log("copy_brain_mask", t)
    /\ pc' = "generate_sidecar_json"
    /\ UNCHANGED <<entry, error, j_args, todo, t, t1or2, cropped, crop2full, mats,
                   transformed_images, workDirExists, artefacts>>
    /\ UNCHANGED mainVars

\* run.py:240-245: glob(input_path)[0] raises IndexError when the BIDS
\* directory holds no *T{t}w.nii.gz file
GenerateSidecars ==
    /\ entry = "postBIBSnet" /\ pc = "generate_sidecar_json"
    /\ \E found \in BOOLEAN :
          IF found
          THEN /\ Log("generate_sidecar_json", t)
               /\ pc' = "revert_to_native"
               /\ UNCHANGED error
          ELSE /\ Raise("IndexError")
               /\ UNCHANGED trace
    /\ UNCHANGED mainVars
    /\ UNCHANGED <<entry>>
    /\ UNCHANGED stageVars

\* run.py:247-253: the loop is over; dataset_description.json
CopyDatasetDescription ==
    /\ entry = "postBIBSnet" /\ pc = "revert_to_native" /\ todo = <<>>
    /\ LET new_data_desc_json == <<"dataset_description", 0>>
           d1 == after_remove(disk, new_data_desc_json, j_args.overwrite)
       IN  IF "bibsnet_derivs_dir" \notin DOMAIN artefacts
           THEN /\ Raise("UnboundLocalError")
                /\ UNCHANGED <<disk, trace>>
           ELSE IF remove_raises(disk, new_data_desc_json, j_args.overwrite)
           THEN /\ Raise("FileNotFoundError")
                /\ UNCHANGED <<disk, trace>>
           ELSE IF Exists(d1, new_data_desc_json)
           THEN /\ disk' = d1
                /\ pc' = "cleanup"
                /\ UNCHANGED <<error, trace>>
           ELSE /\ disk' = Put(d1, new_data_desc_json,
                               [kind |-> "dataset_description", run |-> "this"])
                /\ Log("copy_dataset_description", 0)
                /\ pc' = "cleanup"
                /\ UNCHANGED error
    /\ UNCHANGED <<entry, j_args, todo, t, t1or2, cropped, crop2full, mats,
                   transformed_images, workDirExists, artefacts>>
    /\ UNCHANGED mainVars

\* the comparison done on the path's prefix instead of the whole path
removes_work_dir_by_prefix(work_dir) ==
    work_dir \in {DefaultWorkDir, "/tmp/cabinet/work"}

\* run.py:254: j_args["common"]["work_dir"] == os.path.join("/", "tmp", "cabinet")
removes_work_dir(work_dir) == work_dir = DefaultWorkDir

\* run.py:254-261
Cleanup ==
    /\ entry = "postBIBSnet" /\ pc = "cleanup"
    /\ IF removes_work_dir(j_args.work_dir)
       THEN /\ workDirExists' = FALSE
            /\ Log("rmtree", 0)
       ELSE UNCHANGED <<workDirExists, trace>>
    /\ pc' = "done"
    /\ UNCHANGED <<entry, error, j_args, todo, t, t1or2, cropped, crop2full, mats,
                   transformed_images, disk, artefacts>>
    /\ UNCHANGED mainVars

(***************************************************************************)
(* Initial states and the specification.                                   *)
(***************************************************************************)
\* the modalities a subject session can have: at least one
Modalities == {<<TRUE, TRUE>>, <<TRUE, FALSE>>, <<FALSE, TRUE>>}
Ages == {0, 18, 21, 22, 23, 30}
WorkDirs == {DefaultWorkDir, "/tmp/cabinet/work", "/home/user/work"}

\* what an earlier run left at a target path
Stale(k) ==
    IF k[1] = "dataset_description"
    THEN [kind |-> "dataset_description", run |-> "earlier"]
    ELSE [kind |-> IF k[1] = "optimal_resized" THEN "img" ELSE "mat",
          t |-> k[2], run |-> "earlier"]

StaleDisks(paths) == {[k \in S |-> Stale(k)] : S \in SUBSET paths}

PreTargets(ID) ==
    {<<n, tt>> : n \in {"optimal_resized", "preBIBSnet_mat"},
                 tt \in Range(only_Ts_needed_for_bibsnet_model(ID))}

NoJArgs == [has_T1w |-> FALSE, has_T2w |-> FALSE, overwrite |-> FALSE,
            age_months |-> 0, work_dir |-> ""]

InitStage ==
    /\ todo = <<>> /\ t = 0 /\ t1or2 = 0
    /\ cropped = EmptyDict /\ crop2full = EmptyDict /\ mats = EmptyDict
    /\ transformed_images = EmptyDict /\ artefacts = EmptyDict
    /\ workDirExists = TRUE

InitPre ==
    /\ entry = "preBIBSnet" /\ pc = "create_anatomical_averages"
    /\ \E m \in Modalities, ow \in BOOLEAN :
          j_args = [has_T1w |-> m[1], has_T2w |-> m[2], overwrite |-> ow,
                    age_months |-> 0, work_dir |-> DefaultWorkDir]
    /\ disk \in StaleDisks(PreTargets(j_args))

InitPost ==
    /\ entry = "postBIBSnet" /\ pc = "select_reference"
    /\ \E m \in Modalities, ow \in BOOLEAN, age \in Ages, wd \in WorkDirs :
          j_args = [has_T1w |-> m[1], has_T2w |-> m[2], overwrite |-> ow,
                    age_months |-> age, work_dir |-> wd]
    /\ disk \in StaleDisks({<<"dataset_description", 0>>})

Init ==
    /\ error = "" /\ trace = <<>> /\ rc = -1 /\ exitCode = -1 /\ diag = {}
    /\ InitStage
    /\ \/ InitMain /\ j_args = NoJArgs /\ disk = EmptyDict
       \/ InitPre /\ cli_args = NoCliArgs /\ outDir = {}
       \/ InitPost /\ cli_args = NoCliArgs /\ outDir = {}

Next ==
    \/ GetCliArgs
    \/ SubprocessCall
    \/ CheckOutput
    \/ ExitWithTimeInfo
    \/ CreateAnatomicalAverages
    \/ CropImage
    \/ SelectRegistrationPath
    \/ RegisterNonACPC
    \/ RegisterACPC
    \/ ApplyFinalXfms
    \/ Flirt
    \/ InvertCrop2Full
    \/ ConcatXfms
    \/ Applywarp
    \/ CopyImage
    \/ CopyMat
    \/ PreBIBSnetCompleted
    \/ SelectReference
    \/ LeftRightRegistration
    \/ DilateLRMask
    \/ CorrectChirality
    \/ RevertToNative
    \/ MakeAsegderivedMask
    \/ CopyAseg
    \/ CopyMask
    \/ GenerateSidecars
    \/ CopyDatasetDescription
    \/ Cleanup
    \/ ExternalToolFails

Spec == Init /\ [][Next]_vars

(***************************************************************************)
(* Properties.                                                             *)
(***************************************************************************)
Required == Range(only_Ts_needed_for_bibsnet_model(j_args))
BothModalities == j_args.has_T1w /\ j_args.has_T2w

\* positions of an operation in the trace
At(op, tt) == {i \in 1..Len(trace) : trace[i] = Event(op, tt)}
AtOp(op) == {i \in 1..Len(trace) : trace[i].op = op}
Before(I, J) == \A j \in J : \E i \in I : i < j

SegmentationPresent == \E f \in outDir : f.tail \in {".nii.gz", "_0000.nii.gz",
                                                     "_0001.nii.gz", "_0002.nii.gz"}

\* C1: in main, once the inference call has returned, an output directory
\* without any *.nii.gz file ends the run at once with exit status 1 and a
\* message naming the output and the input directory, the check being the
\* last thing that ran; and exit_with_time_info (status 0) is reached only
\* with at least one *.nii.gz file in the output directory.
C1_AbortsWithoutSegmentation ==
    entry = "main" =>
        /\ (pc = "exit_with_time_info" \/ exitCode = 0) => SegmentationPresent
        /\ (rc # -1 /\ pc # "check_output" /\ ~SegmentationPresent) =>
               /\ pc = "exited"
               /\ exitCode = 1
               /\ {OutputDir, InputDir} \subseteq diag
               /\ trace[Len(trace)].op = "check_output"
               /\ AtOp("exit_with_time_info") = {}

C1_Witness ==
    /\ entry = "main" /\ pc = "exited" /\ exitCode = 1
    /\ rc # -1 /\ ~SegmentationPresent /\ outDir # {}

\* C2: whenever the nnUNet_predict subprocess exits with a non-zero status
\* the run ends as failed (never with exit status 0), whatever the output
\* directory held before.
C2_NonZeroStatusFails ==
    (entry = "main" /\ rc \notin {-1, 0}) =>
        /\ pc # "exit_with_time_info"
        /\ exitCode # 0

\* C3: the reference modality of left/right registration is T2 with both
\* modalities under 22 months, T1 with both modalities from 22 months on,
\* T1 with T1w only and T2 with T2w only; 18 months gives T2, 30 months T1.
C3_ReferenceModality ==
    (entry = "postBIBSnet" /\ "left_right_mask" \in DOMAIN artefacts) =>
        LET ref == artefacts["left_right_mask"].ref
            age == j_args.age_months
        IN  /\ ref = t1or2
            /\ (BothModalities /\ age < 22) => ref = 2
            /\ (BothModalities /\ age >= 22) => ref = 1
            /\ (j_args.has_T1w /\ ~j_args.has_T2w) => ref = 1
            /\ (~j_args.has_T1w /\ j_args.has_T2w) => ref = 2
            /\ (BothModalities /\ age = 18) => ref = 2
            /\ (BothModalities /\ age = 30) => ref = 1

C3_Witness ==
    /\ entry = "postBIBSnet" /\ "left_right_mask" \in DOMAIN artefacts
    /\ BothModalities /\ j_args.age_months = 18
    /\ artefacts["left_right_mask"].ref = 2

\* C4: validate_cli_args accepts the input directory exactly when every
\* slot file the task requires is present (two modalities: a *_0000.nii.gz
\* and a *_0001.nii.gz file; one modality: a *_0000.nii.gz file), and a
\* rejection names the expected pattern(s); the verdict depends on the set
\* of files only.
RequiredTails ==
    IF cli_args.task_T1w /\ cli_args.task_T2w THEN {"_0000.nii.gz", "_0001.nii.gz"}
    ELSE IF cli_args.task_T1w \/ cli_args.task_T2w THEN {"_0000.nii.gz"}
    ELSE {}

C4_AcceptsIffRequiredFilesPresent ==
    (entry = "main" /\ pc # "get_cli_args") =>
        LET present == \A tail \in RequiredTails :
                           \E f \in Range(cli_args.listing) : f.tail = tail
        IN  /\ (error # "parser.error") <=> present
            /\ (error = "parser.error") =>
                   diag = {"*" \o tail : tail \in RequiredTails}

\* C5: the overwrite-guarded copies (the inference-input image in
\* run_preBIBSnet, dataset_description.json in run_postBIBSnet) complete
\* without error for every combination of overwrite flag and target
\* present or absent, and the target exists afterwards.
C5_GuardedCopyCompletes ==
    /\ error # "FileNotFoundError"
    /\ (entry = "preBIBSnet" /\ pc = "copy_mat") =>
           Exists(disk, <<"optimal_resized", t>>)
    /\ (entry = "postBIBSnet" /\ pc \in {"cleanup", "done"}) =>
           Exists(disk, <<"dataset_description", 0>>)

\* C6: the working directory is gone only if it is /tmp/cabinet and
\* run_postBIBSnet has completed without error, with the segmentation and
\* the mask of every required modality and dataset_description.json in the
\* derivatives tree; any other working directory, and the working
\* directory of a failed run, stays on disk.
C6_WorkDirRemovedOnlyOnSuccess ==
    /\ ~workDirExists =>
           /\ entry = "postBIBSnet"
           /\ j_args.work_dir = "/tmp/cabinet"
           /\ pc = "done" /\ error = ""
           /\ \A tt \in Required :
                  /\ Exists(disk, <<"aseg_dseg", tt>>)
                  /\ Exists(disk, <<"brain_mask", tt>>)
           /\ Exists(disk, <<"dataset_description", 0>>)
    /\ pc = "failed" => workDirExists
    /\ j_args.work_dir # "/tmp/cabinet" => workDirExists

C6_Witness ==
    /\ entry = "postBIBSnet" /\ pc = "done" /\ ~workDirExists
    /\ BothModalities

\* C7: in the single-modality path out_mat applies full-to-crop first and
\* crop-to-template second, and the final volume is the averaged volume
\* resampled once with out_mat.
SamplePoints == -2..2

C7_ConcatAppliesFull2CropFirst ==
    /\ (entry = "preBIBSnet" /\ "out_mat" \in DOMAIN mats) =>
           \A x \in SamplePoints :
               ApplyXfm(mats["out_mat"], x)
                   = ApplyXfm(mats["crop2BIBS_mat"], ApplyXfm(mats["full2crop"], x))
    /\ (entry = "preBIBSnet" /\ <<t1or2, "img">> \in DOMAIN transformed_images
        /\ ~BothModalities) =>
           LET img == transformed_images[<<t1or2, "img">>]
           IN  /\ img.premat = mats["out_mat"]
               /\ img.resamples = 1
               /\ img.avg = t1or2

\* C8: run_preBIBSnet takes the dual-modality path (non-ACPC registration,
\* ACPC registration seeded by it, final transform application) exactly
\* when has_T1w and has_T2w both hold, and the single-modality path without
\* an ACPC step otherwise; on either path the copy loop finds a final
\* volume and a final transform of this run for every required modality
\* and never looks up a missing entry.
DualOps == {"register_non_ACPC", "register_ACPC", "apply_final_xfms"}
SingleOps == {"flirt", "convert_xfm_inverse", "convert_xfm_concat", "applywarp"}
OpsIn(ops) == {i \in 1..Len(trace) : trace[i].op \in ops}

C8_PathMatchesModalities ==
    entry = "preBIBSnet" =>
        /\ (OpsIn(DualOps) # {} \/ pc \in DualOps) => BothModalities
        /\ (OpsIn(SingleOps) # {} \/ pc \in SingleOps) => ~BothModalities
        /\ "regn_ACPC" \in DOMAIN artefacts =>
               artefacts["regn_ACPC"].seed = artefacts["regn_non_ACPC"]
        /\ pc \in {"copy_image", "copy_mat", "done"} =>
               /\ BothModalities =>
                      /\ AtOp("register_non_ACPC") # {}
                      /\ Before(AtOp("register_non_ACPC"), AtOp("register_ACPC"))
                      /\ Before(AtOp("register_ACPC"), AtOp("apply_final_xfms"))
                      /\ AtOp("apply_final_xfms") # {}
               /\ ~BothModalities => AtOp("applywarp") # {}
               /\ \A tt \in Required :
                      /\ <<tt, "img">> \in DOMAIN transformed_images
                      /\ <<tt, "mat">> \in DOMAIN transformed_images
                      /\ transformed_images[<<tt, "img">>].t = tt
                      /\ transformed_images[<<tt, "mat">>].t = tt
        /\ error # "KeyError"

C8_Witness ==
    /\ entry = "preBIBSnet" /\ pc = "done" /\ ~BothModalities
    /\ AtOp("copy_image") # {} /\ AtOp("copy_mat") # {}

\* C9: the stages run one after the other, none twice and none skipped:
\* averaging before any cropping, every required modality cropped before
\* any registration, registration finished before any copy into the
\* inference input layout; left/right registration before dilation,
\* dilation before chirality correction, and per modality native-space
\* reversion before mask derivation before the copies of the segmentation
\* (aseg_dseg) and the mask (brain_mask), the mask derived from that
\* modality's native-space segmentation.
RegistrationOps == DualOps \cup SingleOps

C9_StagesInSequence ==
    /\ \A i, j \in 1..Len(trace) : i # j => trace[i] # trace[j]
    /\ entry = "preBIBSnet" =>
           /\ Before(AtOp("create_anatomical_averages"), AtOp("crop_image"))
           /\ \A tt \in Required :
                  Before(At("crop_image", tt), OpsIn(RegistrationOps))
           /\ Before(OpsIn({"apply_final_xfms", "applywarp"}),
                     OpsIn({"copy_image", "copy_mat"}))
           /\ pc = "done" =>
                  /\ AtOp("create_anatomical_averages") # {}
                  /\ \A tt \in Required : At("crop_image", tt) # {}
                  /\ OpsIn({"apply_final_xfms", "applywarp"}) # {}
    /\ entry = "postBIBSnet" =>
           /\ Before(AtOp("left_right_registration"), AtOp("dilate_LR_mask"))
           /\ Before(AtOp("dilate_LR_mask"), AtOp("correct_chirality"))
           /\ Before(AtOp("correct_chirality"), AtOp("revert_to_native"))
           /\ \A tt \in {1, 2} :
                  /\ Before(At("revert_to_native", tt), At("make_asegderived_mask", tt))
                  /\ Before(At("make_asegderived_mask", tt), At("copy_aseg_dseg", tt))
                  /\ Before(At("copy_aseg_dseg", tt), At("copy_brain_mask", tt))
                  /\ Exists(disk, <<"aseg_dseg", tt>>) =>
                         /\ disk[<<"aseg_dseg", tt>>].kind = "native_seg"
                         /\ disk[<<"aseg_dseg", tt>>].t = tt
                  /\ Exists(disk, <<"brain_mask", tt>>) =>
                         /\ disk[<<"brain_mask", tt>>].kind = "mask"
                         /\ disk[<<"brain_mask", tt>>].of = disk[<<"aseg_dseg", tt>>]
           /\ pc \in {"cleanup", "done"} =>
                  \A tt \in Required :
                      /\ At("revert_to_native", tt) # {}
                      /\ At("copy_aseg_dseg", tt) # {}
                      /\ At("copy_brain_mask", tt) # {}

C9_Witness ==
    /\ entry = "postBIBSnet" /\ pc = "done" /\ BothModalities
    /\ At("copy_brain_mask", 1) # {} /\ At("copy_brain_mask", 2) # {}

\* C10: when run_preBIBSnet has completed, the image at the inference-input
\* target and the transform at the postBIBSnet target of every required
\* modality come from the same run, for every overwrite flag and every set
\* of target files an earlier run left behind.
C10_ImageAndTransformFromSameRun ==
    (entry = "preBIBSnet" /\ pc = "done") =>
        \A tt \in Required :
            /\ Exists(disk, <<"optimal_resized", tt>>)
            /\ Exists(disk, <<"preBIBSnet_mat", tt>>)
            /\ disk[<<"optimal_resized", tt>>].run = disk[<<"preBIBSnet_mat", tt>>].run

\* C11: in the single-modality path the crop-to-full transform that is
\* inverted, the averaged volume that is resampled, the cropped volume that
\* is registered and the reference template all belong to modality t1or2
\* (1 if has_T1w else 2): the loop variable t left by the cropping loop
\* equals t1or2 and has an entry in crop2full.
SinglePathPcs == SingleOps \cup {"copy_image", "copy_mat", "done"}

C11_SinglePathUsesOneModality ==
    (entry = "preBIBSnet" /\ ~BothModalities /\ pc \in SinglePathPcs) =>
        /\ t1or2 = (IF j_args.has_T1w THEN 1 ELSE 2)
        /\ (pc \in SingleOps => t = t1or2)
        /\ t1or2 \in DOMAIN crop2full
        /\ t1or2 \in DOMAIN cropped
        /\ cropped[t1or2].t = t1or2
        /\ \A i \in OpsIn(SingleOps) : trace[i].t = t1or2
        /\ "full2crop" \in DOMAIN mats =>
               mats["full2crop"] = ConvertXfmInverse(crop2full[t1or2])
        /\ <<t1or2, "img">> \in DOMAIN transformed_images =>
               /\ transformed_images[<<t1or2, "img">>].avg = t1or2
               /\ transformed_images[<<t1or2, "img">>].t = t1or2

C11_Witness ==
    /\ entry = "preBIBSnet" /\ ~BothModalities /\ j_args.has_T2w
    /\ pc = "copy_image" /\ t = 2
    /\ "full2crop" \in DOMAIN mats
    /\ <<2, "img">> \in DOMAIN transformed_images

====
